---- MODULE Spec2Model ----
(***************************************************************************)
(* SlapBook: the activity dashboard (ActivityPage) and the profile page    *)
(* (ProfilePage), their derived analytics (weekly totals, streaks, the     *)
(* per-user summaries and the bar chart scaling), the login page, and the  *)
(* activity_logs table of the hosted backend they read and write.          *)
(*                                                                         *)
(* Time.  An instant (what Date.getTime() returns) is an absolute tick     *)
(* count; a day has TicksPerDay ticks and tick 0 is 2024-01-01T00:00Z.     *)
(* The viewer's local time is UTC + TzOffset ticks, so a record's local    *)
(* calendar day differs from its UTC day near midnight.  A JavaScript Date *)
(* is modelled by its instant; its local getters and setters go through    *)
(* the calendar below (month lengths, month roll-over), as MakeDay does.   *)
(* An ISO string (toISOString, the occurred_at column) is the tuple of its *)
(* UTC fields <<year, month, date, tick of day>>.                          *)
(***************************************************************************)
EXTENDS Integers, Sequences, FiniteSets, TLC

\* ---------------------------------------------------------------- bounds
TicksPerDay == 2
\* how many Tick steps the wall clock takes after its first value
MaxTicks == 1
\* most rows the activity_logs table ever holds
MaxRows == 3
\* most symbols typed into the minutes field of the quick-log form
MaxText == 2
\* the most calls of load one profile page has in flight
MaxInflight == 2
\* the most rows the posts table and the comments table hold
MaxPosts == 2
MaxComments == 1
\* largest minutes value typed into the quick-log form
MaxMinutes == 1
\* how many days before the Monday of the window a record may be dated
DaysBack == 3

\* -------------------------------------------------------------- calendar
\* local time zone: UTC + TzOffset ticks (half a day, rounded down, ahead)
TzOffset == TicksPerDay - 1

\* month lengths of the (leap) year of the window
MonthLen(m) == <<31, 29, 31, 30, 31, 30, 31, 31, 30, 31, 30, 31>>[m]

\* day number (0 = January 1, 2024) of the first day of month m
RECURSIVE FirstOfMonth(_)
FirstOfMonth(m) == IF m = 1 THEN 0 ELSE FirstOfMonth(m - 1) + MonthLen(m - 1)

\* MakeDay: day number of year/month/date, date may be <= 0 or past the
\* month's end (Date.prototype.setDate normalises it this way)
MakeDay(m, d) == FirstOfMonth(m) + d - 1

\* <<month, date>> of a day number
RECURSIVE MonthDateFrom(_, _)
MonthDateFrom(m, n) ==
    IF n < MonthLen(m) THEN <<m, n + 1>> ELSE MonthDateFrom(m + 1, n - MonthLen(m))
MonthDate(dayNo) == MonthDateFrom(1, dayNo)

\* local fields of a Date whose instant is t
LocalDayNo(t) == (t + TzOffset) \div TicksPerDay
LocalTickOfDay(t) == (t + TzOffset) % TicksPerDay
getFullYear(t) == 2024
getMonth(t) == MonthDate(LocalDayNo(t))[1] - 1
getDate(t) == MonthDate(LocalDayNo(t))[2]
\* Sun=0..Sat=6; 2024-01-01 is a Monday
getDay(t) == (LocalDayNo(t) + 1) % 7

\* d.setDate(k): same local month and time of day, date k, normalised
setDate(t, k) ==
    (MakeDay(getMonth(t) + 1, k) * TicksPerDay) + LocalTickOfDay(t) - TzOffset
\* d.setHours(0, 0, 0, 0): local midnight of the same local day
setHours0(t) == (LocalDayNo(t) * TicksPerDay) - TzOffset

\* d.toISOString(): the UTC fields
toISOString(t) ==
    LET md == MonthDate(t \div TicksPerDay)
    IN  <<2024, md[1], md[2], t % TicksPerDay>>
\* new Date(iso).getTime()
ParseISO(iso) == (MakeDay(iso[2], iso[3]) * TicksPerDay) + iso[4]

\* a faulty variant: a Sunday is moved forward to the next day's Monday
startOfWeekNoSunday(now) ==
    LET day == getDay(now)
        diff == 1 - day
    IN  setHours0(setDate(now, getDate(now) + diff))

\* src: startOfWeekMondayLocal
startOfWeekMondayLocal(now) ==
    LET day == getDay(now)
        diff == (IF day = 0 THEN -6 ELSE 1) - day
    IN  setHours0(setDate(now, getDate(now) + diff))

\* src: dateKeyLocal; the key `${y}-${m}-${d}` as its three fields
dateKeyLocal(t) == <<getFullYear(t), getMonth(t) + 1, getDate(t)>>

\* ------------------------------------------------------------ data model
Users == {"ua", "ub"}
\* the users whose lowercased email is in ALLOWED_EMAILS, and a user of the
\* auth backend whose email is not
AllowedUsers == Users
Outsider == "ux"
Categories == {"study", "skill", "exercise"}
\* minutes: number | null, as <<n>> or <<>>
NullMinutes == << >>
\* what a row not written by the quick-log form may hold instead: no
\* minutes property (undefined), or the string that reads as the number n
UndefinedMinutes == <<0, "undefined">>
StringMinutes(n) == <<n, "string">>
\* a faulty variant: anything but null is taken as a number
IsNumberLoose(x) == Len(x) >= 1
\* typeof x === "number"
IsNumber(x) == Len(x) = 1
\* a category outside the Category type, as a row not written by the form
\* may carry
UnknownCategory == "other"
\* the value of undefined + m, and of NaN + m
NaN == "NaN"
\* user ids that are canonical array indices, and their numeric values
IndexLikeIds == {"2", "10"}
ToIndex(uid) == IF uid = "2" THEN 2 ELSE 10
\* the joined profiles(username, display_name) of a row's owner, as << >>
\* (null or missing) or <<p>>
NoProfiles == << >>
ProfileOf(u) == <<[username |-> u, display_name |-> u]>>

\* the instant of a row: new Date(l.occurred_at).getTime()
OccurredAt(l) == ParseISO(l.occurred_at)

\* ------------------------------------------- ProfilePage: derived values
\* a faulty variant: the minutes are not added to all
AddMinutesNoAll(totals, cat, m) ==
    [totals EXCEPT ![cat] = @ + m]

\* src: weeklyTotals (profile page); totals[l.category] += m; totals.all += m
\* (a category that is not a property of totals becomes one, holding NaN)
AddMinutes(totals, cat, m) ==
    IF cat \in Categories
    THEN [totals EXCEPT ![cat] = @ + m, !["all"] = @ + m]
    ELSE [f \in (DOMAIN totals) \cup {cat} |->
             IF f = cat THEN NaN
             ELSE IF f = "all" THEN totals.all + m
             ELSE totals[f]]

\* a faulty variant: a row exactly at the week start is skipped
RECURSIVE WeeklyTotalsFromStrict(_, _, _, _)
WeeklyTotalsFromStrict(logs, i, weekStartISO, totals) ==
    IF i > Len(logs) THEN totals
    ELSE LET l == logs[i]
             m == IF IsNumber(l.minutes) THEN l.minutes[1] ELSE 0
         IN  IF OccurredAt(l) <= ParseISO(weekStartISO)
             THEN WeeklyTotalsFromStrict(logs, i + 1, weekStartISO, totals)
             ELSE WeeklyTotalsFromStrict(logs, i + 1, weekStartISO,
                                         [totals EXCEPT ![l.category] = @ + m,
                                                        !["all"] = @ + m])

\* a faulty variant: the loop stops at the first row before the week start
RECURSIVE WeeklyTotalsFromBreak(_, _, _, _)
WeeklyTotalsFromBreak(logs, i, weekStartISO, totals) ==
    IF i > Len(logs) THEN totals
    ELSE LET l == logs[i]
             m == IF IsNumber(l.minutes) THEN l.minutes[1] ELSE 0
         IN  IF OccurredAt(l) < ParseISO(weekStartISO)
             THEN totals
             ELSE WeeklyTotalsFromBreak(logs, i + 1, weekStartISO,
                                        AddMinutes(totals, l.category, m))

\* src: weeklyTotals (profile page), the loop over logs
RECURSIVE WeeklyTotalsFrom(_, _, _, _)
WeeklyTotalsFrom(logs, i, weekStartISO, totals) ==
    IF i > Len(logs) THEN totals
    ELSE LET l == logs[i]
             m == IF IsNumber(l.minutes) THEN l.minutes[1] ELSE 0
         IN  IF OccurredAt(l) < ParseISO(weekStartISO)
             THEN WeeklyTotalsFrom(logs, i + 1, weekStartISO, totals)
             ELSE WeeklyTotalsFrom(logs, i + 1, weekStartISO,
                                   AddMinutes(totals, l.category, m))

ZeroTotals == [study |-> 0, skill |-> 0, exercise |-> 0, all |-> 0]
ProfileWeeklyTotals(logs, weekStartISO) ==
    WeeklyTotalsFrom(logs, 1, weekStartISO, ZeroTotals)

\* the set of day keys of a list of rows
DayKeys(logs) == {dateKeyLocal(OccurredAt(logs[i])) : i \in 1..Len(logs)}

\* a faulty variant: the cursor steps back two days at a time
RECURSIVE ProfileCountBackSkip(_, _, _)
ProfileCountBackSkip(days, cursor, s) ==
    IF dateKeyLocal(cursor) \in days
    THEN ProfileCountBackSkip(days, setDate(cursor, getDate(cursor) - 2), s + 1)
    ELSE s

\* a faulty variant: the loop counts a day before it tests the next one
RECURSIVE ProfileCountBackDoWhile(_, _, _)
ProfileCountBackDoWhile(days, cursor, s) ==
    LET prev == setDate(cursor, getDate(cursor) - 1)
    IN  IF dateKeyLocal(prev) \in days
        THEN ProfileCountBackDoWhile(days, prev, s + 1)
        ELSE s + 1

\* src: streak (profile page), the loop: while (days.has(dateKeyLocal(cursor)))
RECURSIVE ProfileCountBack(_, _, _)
ProfileCountBack(days, cursor, s) ==
    IF dateKeyLocal(cursor) \in days
    THEN ProfileCountBack(days, setDate(cursor, getDate(cursor) - 1), s + 1)
    ELSE s

\* a faulty variant: the forgiving step repeats until an active day is found
RECURSIVE SkipBack(_, _, _)
SkipBack(days, cursor, left) ==
    IF left = 0 \/ dateKeyLocal(cursor) \in days THEN cursor
    ELSE SkipBack(days, setDate(cursor, getDate(cursor) - 1), left - 1)
ProfileStreakGraceLoop(logs, today) ==
    LET days == DayKeys(logs)
        cursor1 == SkipBack(days, setHours0(today), 7)
    IN  ProfileCountBack(days, cursor1, 0)

\* src: streak (profile page): cursor at local midnight of today, the
\* forgiving step, then the loop
ProfileStreak(logs, today) ==
    LET days == DayKeys(logs)
        cursor0 == setHours0(today)
        cursor1 == IF dateKeyLocal(cursor0) \notin days
                   THEN setDate(cursor0, getDate(cursor0) - 1)
                   ELSE cursor0
    IN  ProfileCountBack(days, cursor1, 0)

\* ------------------------------------------ ActivityPage: derived values
\* src: weeklyLogs
RECURSIVE FilterWeek(_, _)
FilterWeek(logs, weekStartISO) ==
    IF logs = << >> THEN << >>
    ELSE LET rest == FilterWeek(Tail(logs), weekStartISO)
         IN  IF OccurredAt(Head(logs)) >= ParseISO(weekStartISO)
             THEN <<Head(logs)>> \o rest
             ELSE rest
\* a faulty variant: the rows before the week start are kept
WeeklyLogsUnfiltered(logs, weekStartISO) == logs
WeeklyLogs(logs, weekStartISO) == FilterWeek(logs, weekStartISO)

\* index of the entry of key uid in an insertion-ordered map, 0 when absent
IndexOf(map, uid) ==
    IF \E i \in 1..Len(map) : map[i].user_id = uid
    THEN CHOOSE i \in 1..Len(map) : map[i].user_id = uid
    ELSE 0

\* a faulty variant: a missing profiles field gives empty names
NewSummaryBlank(l) ==
    [user_id |-> l.user_id,
     display_name |-> IF l.profiles = NoProfiles THEN ""
                      ELSE l.profiles[1].display_name,
     username |-> IF l.profiles = NoProfiles THEN ""
                  ELSE l.profiles[1].username,
     study |-> 0, skill |-> 0, exercise |-> 0, all |-> 0]

\* src: totalsByUser; the summary a row seeds, l.profiles?.display_name ??
\* "Unknown" and l.profiles?.username ?? "unknown"
NewSummary(l) ==
    [user_id |-> l.user_id,
     display_name |-> IF l.profiles = NoProfiles THEN "Unknown"
                      ELSE l.profiles[1].display_name,
     username |-> IF l.profiles = NoProfiles THEN "unknown"
                  ELSE l.profiles[1].username,
     study |-> 0, skill |-> 0, exercise |-> 0, all |-> 0]

\* a faulty variant: the summary of an owner is seeded again on every row
RECURSIVE TotalsByUserFromReseed(_, _, _)
TotalsByUserFromReseed(weeklyLogs, i, map) ==
    IF i > Len(weeklyLogs) THEN map
    ELSE LET l == weeklyLogs[i]
             seeded == IF IndexOf(map, l.user_id) = 0
                       THEN Append(map, NewSummary(l))
                       ELSE [map EXCEPT ![IndexOf(map, l.user_id)] = NewSummary(l)]
             k == IndexOf(seeded, l.user_id)
             m == IF IsNumber(l.minutes) THEN l.minutes[1] ELSE 0
         IN  TotalsByUserFromReseed(weeklyLogs, i + 1,
                 [seeded EXCEPT ![k] = AddMinutes(@, l.category, m)])

\* src: totalsByUser; map is the object keyed by user_id, in insertion order
RECURSIVE TotalsByUserFrom(_, _, _)
TotalsByUserFrom(weeklyLogs, i, map) ==
    IF i > Len(weeklyLogs) THEN map
    ELSE LET l == weeklyLogs[i]
             seeded == IF IndexOf(map, l.user_id) = 0
                       THEN Append(map, NewSummary(l))
                       ELSE map
             k == IndexOf(seeded, l.user_id)
             m == IF IsNumber(l.minutes) THEN l.minutes[1] ELSE 0
         IN  TotalsByUserFrom(weeklyLogs, i + 1,
                 [seeded EXCEPT ![k] = AddMinutes(@, l.category, m)])

\* Object.values(map): the values of the keys that are array indices first,
\* in ascending numeric order, then those of the other keys in the order the
\* keys were added
ObjectValues(map) ==
    LET ints == {i \in DOMAIN map : map[i].user_id \in IndexLikeIds}
        strs == (DOMAIN map) \ ints
        pos(i) == IF i \in ints
                  THEN 1 + Cardinality({j \in ints :
                               ToIndex(map[j].user_id) < ToIndex(map[i].user_id)})
                  ELSE 1 + Cardinality(ints) + Cardinality({j \in strs : j < i})
    IN  IF ints = {} THEN map
        ELSE [k \in 1..Len(map) |-> map[CHOOSE i \in DOMAIN map : pos(i) = k]]

\* src: totalsByUser
TotalsByUser(weeklyLogs) == ObjectValues(TotalsByUserFrom(weeklyLogs, 1, << >>))

Max2(a, b) == IF a >= b THEN a ELSE b
\* a faulty variant: exercise is left out of the maximum
RECURSIVE MaxBarFromNoExercise(_, _, _)
MaxBarFromNoExercise(users, i, max) ==
    IF i > Len(users) THEN max
    ELSE MaxBarFromNoExercise(users, i + 1,
             Max2(Max2(max, users[i].study), users[i].skill))

\* src: maxBar
RECURSIVE MaxBarFrom(_, _, _)
MaxBarFrom(users, i, max) ==
    IF i > Len(users) THEN max
    ELSE MaxBarFrom(users, i + 1,
             Max2(Max2(Max2(max, users[i].study), users[i].skill), users[i].exercise))

\* a faulty variant: the maximum is taken over the all field of the summaries
MaxBarOfAll(users) ==
    LET MaxAll[i \in 0..Len(users)] ==
            IF i = 0 THEN 1 ELSE Max2(MaxAll[i - 1], users[i].all)
    IN  MaxAll[Len(users)]

\* src: maxBar; let max = 1, then the loop
MaxBar(users) == MaxBarFrom(users, 1, 1)

\* Math.round(x) for x = (100 * v) / max >= 0: floor(x + 1/2)
Pct(v, max) == ((200 * v) + max) \div (2 * max)

\* the rendered bar widths: for each category, one percentage per user
ChartPcts(users, max) ==
    [cat \in Categories |-> [i \in 1..Len(users) |-> Pct(users[i][cat], max)]]

\* a faulty variant: one set of day keys shared by every owner
RECURSIVE ActiveDaysShared(_, _, _)
ActiveDaysShared(logs, i, activeDays) ==
    IF i > Len(logs) THEN activeDays
    ELSE LET l == logs[i]
             key == dateKeyLocal(OccurredAt(l))
         IN  ActiveDaysShared(logs, i + 1,
                 [u \in (DOMAIN activeDays) \cup {l.user_id} |-> DayKeys(logs)])

\* src: streakByUser, the first loop: activeDays[uid] = set of day keys
RECURSIVE ActiveDaysFrom(_, _, _)
ActiveDaysFrom(logs, i, activeDays) ==
    IF i > Len(logs) THEN activeDays
    ELSE LET l == logs[i]
             key == dateKeyLocal(OccurredAt(l))
             old == IF l.user_id \in DOMAIN activeDays
                    THEN activeDays[l.user_id] ELSE {}
         IN  ActiveDaysFrom(logs, i + 1,
                 [u \in (DOMAIN activeDays) \cup {l.user_id} |->
                     IF u = l.user_id THEN old \cup {key} ELSE activeDays[u]])
ActiveDays(logs) == ActiveDaysFrom(logs, 1, [u \in {} |-> {}])

\* a faulty variant: the loop walks a fixed number of days and counts the active ones
UserCountBackNoStop(set, cursor, streak) ==
    LET CountDays[k \in 0..7] ==
            IF k = 0 THEN 0
            ELSE CountDays[k - 1] +
                 (IF dateKeyLocal(cursor - ((k - 1) * TicksPerDay)) \in set THEN 1 ELSE 0)
    IN  streak + CountDays[7]

\* src: streakByUser, the counting loop of one user
RECURSIVE UserCountBack(_, _, _)
UserCountBack(set, cursor, streak) ==
    IF dateKeyLocal(cursor) \in set
    THEN UserCountBack(set, setDate(cursor, getDate(cursor) - 1), streak + 1)
    ELSE streak

\* a faulty variant: the forgiving step is missing
UserStreakNoGrace(set, today) ==
    UserCountBack(set, setHours0(today), 0)

\* a faulty variant: the count always starts from yesterday
UserStreakFromYesterday(set, today) ==
    LET cursor0 == setHours0(today)
    IN  UserCountBack(set, setDate(cursor0, getDate(cursor0) - 1), 0)

\* src: streakByUser, the body of the second loop for one user
UserStreak(set, today) ==
    LET cursor0 == setHours0(today)
        cursor1 == IF dateKeyLocal(cursor0) \notin set
                   THEN setDate(cursor0, getDate(cursor0) - 1)
                   ELSE cursor0
    IN  UserCountBack(set, cursor1, 0)

\* src: streakByUser
StreakByUser(logs, today) ==
    LET activeDays == ActiveDays(logs)
    IN  [uid \in DOMAIN activeDays |-> UserStreak(activeDays[uid], today)]

\* --------------------------------------------------------------- backend
\* src: since.setDate(since.getDate() - 120)
LookbackDays == 120
\* src: .limit(2000) of the dashboard, .limit(1000) of the profile page
ActivityRowCap == 2000
ProfileRowCap == 1000

Min2(a, b) == IF a <= b THEN a ELSE b

\* every order of the rows of a set
Orders(rows) ==
    {s \in [1..Cardinality(rows) -> rows] :
        \A i, j \in 1..Cardinality(rows) : i # j => s[i] # s[j]}

\* .gte("occurred_at", since).order("occurred_at", {ascending: false}).limit(cap):
\* the lists the backend may answer with (rows of equal occurred_at come in
\* any order)
Fetch(rows, since, cap) ==
    LET kept == {l \in rows : OccurredAt(l) >= since}
    IN  {SubSeq(s, 1, Min2(Len(s), cap)) :
            s \in {o \in Orders(kept) :
                    \A i \in 1..(Len(o) - 1) : OccurredAt(o[i]) >= OccurredAt(o[i + 1])}}

\* src: .limit(50) of the posts queries
PostCap == 50
\* a row of posts or post_comments is [id, user_id, content], ids rising
\* with created_at; .order("created_at", {ascending: false}).limit(cap)
RECURSIVE NewestFirst(_)
NewestFirst(rows) ==
    IF rows = {} THEN << >>
    ELSE LET top == CHOOSE r \in rows : \A q \in rows : q.id <= r.id
         IN  <<top>> \o NewestFirst(rows \ {top})
PostsFetch(rows, cap) ==
    LET s == NewestFirst(rows) IN SubSeq(s, 1, Min2(Len(s), cap))

\* ----------------------------------------------------------------- state
VARIABLES
    now,           \* the wall clock: what new Date() reads
    db,            \* the activity_logs table: a set of rows
    me,            \* the signed-in user of the session, or "none"
    page,          \* the mounted page: "login", "feed", "activity", "profile",
                   \* "post" (the discussion page of one post)
    uname,         \* ProfilePage: the username of the route, or "none"
    logs,          \* useState logs of the mounted page
    msg,           \* useState msg of the mounted page
    weekStartISO,  \* useMemo weekStartISO of the mounted page
    streakNow,     \* the new Date() the streak memo read when it last ran
    weeklyLogs,    \* ActivityPage: useMemo weeklyLogs
    totalsByUser,  \* ActivityPage: useMemo totalsByUser
    maxBar,        \* ActivityPage: useMemo maxBar
    bars,          \* ActivityPage: the pct of every rendered bar
    streakByUser,  \* ActivityPage: useMemo streakByUser
    weeklyTotals,  \* ProfilePage: useMemo weeklyTotals
    streak,        \* ProfilePage: useMemo streak
    postsDb,       \* the posts table: a set of rows
    commentsDb,    \* the comments table, the rows of the post under discussion
    typed,         \* what the input of the mounted page holds: useState
                   \* minutes (dashboard), text (feed, discussion page)
    posts,         \* useState posts of the mounted page (feed, profile)
    comments,      \* useState comments of the discussion page
    inflight       \* ProfilePage: the calls of load that have not returned

vars == <<now, db, me, page, uname, logs, msg, weekStartISO, streakNow,
          weeklyLogs, totalsByUser, maxBar, bars, streakByUser,
          weeklyTotals, streak, postsDb, commentsDb, typed, posts, comments,
          inflight>>

activityMemos == <<weeklyLogs, totalsByUser, maxBar, bars, streakByUser>>
profileMemos == <<weeklyTotals, streak>>
tables == <<db, postsDb, commentsDb>>
pageFields == <<typed, posts, comments, inflight>>
pageState == <<logs, msg, weekStartISO, streakNow, activityMemos, profileMemos,
               pageFields>>

\* the window of the model: the Monday 2024-03-04 (day number 63)
MondayDayNo == 9 * 7
MondayMidnight == (MondayDayNo * TicksPerDay) - TzOffset
\* the clock starts one tick before that Monday begins (a Sunday)
NowStart == MondayMidnight - 1
\* the instants a row may be dated at
RecordInstants ==
    (MondayMidnight - (DaysBack * TicksPerDay)) .. (MondayMidnight + TicksPerDay - 1)
\* the instants of the week before that Monday
WeekInstants == (MondayMidnight - (7 * TicksPerDay)) .. NowStart

\* the week start of a page that is not mounted
NoISO == toISOString(0)
NoError == ""

\* the values of the memos of a page that is not mounted
NoActivityMemos ==
    /\ weeklyLogs' = << >>
    /\ totalsByUser' = << >>
    /\ maxBar' = 1
    /\ bars' = [cat \in Categories |-> << >>]
    /\ streakByUser' = [u \in {} |-> 0]
NoProfileMemos ==
    /\ weeklyTotals' = ZeroTotals
    /\ streak' = 0

\* a render of ActivityPage after setLogs(lg): every memo that depends on
\* logs runs again; the streak memo reads new Date()
ActivityRender(lg, ws) ==
    /\ logs' = lg
    /\ weeklyLogs' = WeeklyLogs(lg, ws)
    /\ totalsByUser' = TotalsByUser(weeklyLogs')
    /\ maxBar' = MaxBar(totalsByUser')
    /\ bars' = ChartPcts(totalsByUser', maxBar')
    /\ streakByUser' = StreakByUser(lg, now)
    /\ streakNow' = now
    /\ NoProfileMemos

\* a faulty variant: the streak memo adds to the value it held before
ProfileRenderCarry(lg, ws) ==
    /\ logs' = lg
    /\ weeklyTotals' = ProfileWeeklyTotals(lg, ws)
    /\ streak' = streak + ProfileStreak(lg, now)
    /\ streakNow' = now
    /\ NoActivityMemos

\* a render of ProfilePage after setLogs(lg)
ProfileRender(lg, ws) ==
    /\ logs' = lg
    /\ weeklyTotals' = ProfileWeeklyTotals(lg, ws)
    /\ streak' = ProfileStreak(lg, now)
    /\ streakNow' = now
    /\ NoActivityMemos

\* the other fields of a page that has just mounted, or is not mounted
NoText == << >>
FreshWith(text) ==
    /\ typed' = text
    /\ posts' = << >>
    /\ comments' = << >>
    /\ inflight' = << >>
Fresh == FreshWith(NoText)
\* src: ActivityPage; useState("30") for the minutes field
InitialMinutes == <<"3", "0">>

Unmount ==
    /\ Fresh
    /\ logs' = << >>
    /\ msg' = NoError
    /\ weekStartISO' = NoISO
    /\ streakNow' = 0
    /\ NoActivityMemos
    /\ NoProfileMemos

\* no post, no comment, and the fields of a page that is not mounted
NoContent ==
    /\ postsDb = {}
    /\ commentsDb = {}
    /\ typed = NoText
    /\ posts = << >>
    /\ comments = << >>
    /\ inflight = << >>

Init ==
    /\ now = NowStart
    /\ db = {}
    /\ me = "none"
    /\ page = "login"
    /\ uname = "none"
    /\ logs = << >>
    /\ msg = NoError
    /\ weekStartISO = NoISO
    /\ streakNow = 0
    /\ weeklyLogs = << >>
    /\ totalsByUser = << >>
    /\ maxBar = 1
    /\ bars = [cat \in Categories |-> << >>]
    /\ streakByUser = [u \in {} |-> 0]
    /\ weeklyTotals = ZeroTotals
    /\ streak = 0
    /\ NoContent

\* --------------------------------------------------------------- actions
\* the wall clock advances
Tick ==
    /\ now < NowStart + MaxTicks
    /\ now' = now + 1
    /\ UNCHANGED <<tables, me, page, uname, pageState>>

\* src: LoginPage.signIn, with the credentials of an allowed user
SignIn(u) ==
    /\ page = "login"
    /\ me' = u
    /\ page' = "feed"
    /\ UNCHANGED <<now, tables, uname, pageState>>

\* src: ActivityPage.signOut (and the feed's)
SignOut ==
    /\ page \in {"feed", "activity"}
    /\ me' = "none"
    /\ page' = "login"
    /\ uname' = "none"
    /\ Unmount
    /\ UNCHANGED <<now, tables>>

\* router.push("/"): back to the feed
OpenFeed ==
    /\ page \in {"activity", "profile", "post"}
    /\ page' = "feed"
    /\ uname' = "none"
    /\ Unmount
    /\ UNCHANGED <<now, tables, me>>

\* router.push("/activity"): ActivityPage mounts; its first render runs
\* every memo on the initial state (logs = [])
OpenActivity ==
    /\ page \in {"feed", "profile"}
    /\ page' = "activity"
    /\ uname' = "none"
    /\ msg' = NoError
    /\ weekStartISO' = toISOString(startOfWeekMondayLocal(now))
    /\ ActivityRender(<< >>, toISOString(startOfWeekMondayLocal(now)))
    /\ FreshWith(InitialMinutes)
    /\ UNCHANGED <<now, tables, me>>

\* router.push(`/profile/${username}`): ProfilePage mounts
OpenProfile(u) ==
    /\ page \in {"feed", "activity"}
    /\ page' = "profile"
    /\ uname' = u
    /\ msg' = NoError
    /\ weekStartISO' = toISOString(startOfWeekMondayLocal(now))
    /\ ProfileRender(<< >>, toISOString(startOfWeekMondayLocal(now)))
    /\ Fresh
    /\ UNCHANGED <<now, tables, me>>

\* since = now - 120 days
Since == setDate(now, getDate(now) - LookbackDays)

\* src: ActivityPage.load, from the activity_logs query on, against table rows
ActivityLoadFrom(rows, ok) ==
    IF ok
    THEN \E data \in Fetch(rows, Since, ActivityRowCap) :
            /\ msg' = NoError
            /\ ActivityRender(data, weekStartISO)
    ELSE /\ msg' = "error"
         /\ ActivityRender(<< >>, weekStartISO)

\* src: load of every page, for a session whose email is not in the
\* allow-list: signOut, router.push("/login")
Denied ==
    /\ me' = "none"
    /\ page' = "login"
    /\ uname' = "none"
    /\ Unmount

\* src: ActivityPage.load (the mount effect and the Refresh button)
ActivityLoad(ok) ==
    /\ page = "activity"
    /\ me \in AllowedUsers
    /\ ActivityLoadFrom(db, ok)
    /\ UNCHANGED <<now, tables, me, page, uname, weekStartISO, pageFields>>

\* src: ProfilePage.load(uname), from the profiles query on
ProfileLoadFrom(rows, ok) ==
    IF ok
    THEN \E data \in Fetch({l \in rows : l.user_id = uname}, Since, ProfileRowCap) :
            /\ msg' = NoError
            /\ ProfileRender(data, weekStartISO)
    ELSE /\ msg' = "error"
         /\ ProfileRender(<< >>, weekStartISO)

\* src: ProfilePage.load, the posts query against table rows: setPosts
ProfilePostsFrom(rows) ==
    posts' = PostsFetch({q \in rows : q.user_id = uname}, PostCap)

\* src: ProfilePage.load (the effect on the route's username)
ProfileLoad(ok) ==
    /\ page = "profile"
    /\ me \in AllowedUsers
    /\ ProfilePostsFrom(postsDb)
    /\ ProfileLoadFrom(db, ok)
    /\ UNCHANGED <<now, tables, me, page, uname, weekStartISO, typed, comments,
                   inflight>>

\* the minutes field of the quick-log form: blank or a number
\* (a typed 0 adds to the totals what a blank field does)
FormMinutes == {NullMinutes} \cup {<<n>> : n \in 1..MaxMinutes}
\* the datetime-local field: blank or a local date and time, as <<>> or <<t>>
Blank == << >>
FormWhen(instants) == {Blank} \cup {<<t>> : t \in instants}

\* src: ActivityPage.createLog; when is the datetime-local field (an instant
\* or blank: the column's default now())
CreateLog(cat, m, when, insertOk, loadOk) ==
    /\ page = "activity"
    /\ me # "none"
    /\ LET row == [user_id |-> me, category |-> cat, minutes |-> m,
                   occurred_at |-> toISOString(IF when = Blank THEN now ELSE when[1]),
                   profiles |-> ProfileOf(me)]
       IN  /\ row \notin db
           /\ Cardinality(db) < MaxRows
           /\ IF insertOk
              THEN /\ db' = db \cup {row}
                   /\ IF me \in AllowedUsers
                      THEN /\ ActivityLoadFrom(db \cup {row}, loadOk)
                           /\ UNCHANGED <<me, page, uname, weekStartISO, pageFields>>
                      ELSE Denied
              ELSE /\ msg' = "error"
                   /\ UNCHANGED <<db, logs, streakNow, activityMemos, profileMemos,
                                  me, page, uname, weekStartISO, pageFields>>
    /\ UNCHANGED <<now, postsDb, commentsDb>>

\* what is typed into the minutes field: a sequence of symbols, the symbol
\* "Infinity" standing for the eight letters of that word
Digits == {"0", "3"}
Symbols == {" ", "-", "x", "Infinity"} \cup Digits
MinutesTexts == UNION {[1..n -> Symbols] : n \in 0..MaxText}

\* String.prototype.trim
RECURSIVE TrimStart(_)
TrimStart(text) ==
    IF text # << >> /\ Head(text) = " " THEN TrimStart(Tail(text)) ELSE text
RECURSIVE TrimEnd(_)
TrimEnd(text) ==
    IF text # << >> /\ text[Len(text)] = " "
    THEN TrimEnd(SubSeq(text, 1, Len(text) - 1))
    ELSE text
Trim(text) == TrimEnd(TrimStart(text))

\* a JavaScript number: finite with value v, NaN, or an infinity of sign v
Finite(v) == [kind |-> "finite", v |-> v]
NotANumber == [kind |-> "NaN", v |-> 0]
Infinite(sign) == [kind |-> "Infinity", v |-> sign]
DigitValue(c) == IF c = "0" THEN 0 ELSE 3
\* the value of a decimal digit string
RECURSIVE Decimal(_)
Decimal(ds) ==
    IF ds = << >> THEN 0
    ELSE (10 * Decimal(SubSeq(ds, 1, Len(ds) - 1))) + DigitValue(ds[Len(ds)])
AllDigits(ds) == ds # << >> /\ \A i \in 1..Len(ds) : ds[i] \in Digits
\* Number(text): white space at both ends is dropped, the empty string is 0,
\* a signed digit string its value, [-]Infinity an infinity, the rest NaN
NumberOf(text) ==
    LET t == Trim(text)
    IN  IF t = << >> THEN Finite(0)
        ELSE IF AllDigits(t) THEN Finite(Decimal(t))
        ELSE IF Head(t) = "-" /\ AllDigits(Tail(t)) THEN Finite(0 - Decimal(Tail(t)))
        ELSE IF t = <<"Infinity">> THEN Infinite(1)
        ELSE IF t = <<"-", "Infinity">> THEN Infinite(-1)
        ELSE NotANumber
\* Number.isFinite(m), and m < 0
isFinite(m) == m.kind = "finite"
Negative(m) == m.kind # "NaN" /\ m.v < 0

\* a faulty variant: the sign of the number is not tested
MinutesRejectedNoSign(m) == ~isFinite(m)
\* src: createLog; !Number.isFinite(m) || m < 0, for m that is not null
MinutesRejected(m) == ~isFinite(m) \/ Negative(m)

MinutesMsg == "Minutes must be a non-negative number."

\* src: ActivityPage.createLog, with text in the minutes field
SubmitLog(cat, text, when, insertOk, loadOk) ==
    IF Trim(text) = << >>
    THEN CreateLog(cat, NullMinutes, when, insertOk, loadOk)
    ELSE IF MinutesRejected(NumberOf(text))
    THEN /\ page = "activity"
         /\ me # "none"
         /\ msg' = MinutesMsg
         /\ UNCHANGED <<now, tables, me, page, uname, logs, weekStartISO, streakNow,
                        activityMemos, profileMemos, pageFields>>
    ELSE CreateLog(cat, <<NumberOf(text).v>>, when, insertOk, loadOk)

\* src: the minutes input of the quick-log form; onChange is setMinutes
TypeMinutes(text) ==
    /\ page = "activity"
    /\ typed' = text
    /\ UNCHANGED <<now, tables, me, page, uname, logs, msg, weekStartISO,
                   streakNow, activityMemos, profileMemos, posts, comments,
                   inflight>>

\* src: ActivityPage.createLog on the text the minutes field holds
SubmitForm(insertOk, loadOk) == SubmitLog("study", typed, Blank, insertOk, loadOk)

\* src: ActivityPage.deleteLog, on a listed row of the viewer
ActivityDeleteLog(i, deleteOk, loadOk) ==
    /\ page = "activity"
    /\ i \in 1..Len(logs)
    /\ logs[i].user_id = me
    /\ IF deleteOk
       THEN /\ db' = db \ {logs[i]}
            /\ ActivityLoadFrom(db \ {logs[i]}, loadOk)
       ELSE /\ msg' = "error"
            /\ UNCHANGED <<db, logs, streakNow, activityMemos, profileMemos>>
    /\ UNCHANGED <<now, me, page, uname, weekStartISO, postsDb, commentsDb,
                   pageFields>>

\* a faulty variant: the row is deleted and the page is not loaded again
ProfileDeleteLogNoReload(i, deleteOk, loadOk) ==
    /\ page = "profile"
    /\ i \in 1..Len(logs)
    /\ logs[i].user_id = me
    /\ IF deleteOk
       THEN /\ db' = db \ {logs[i]}
            /\ msg' = NoError
       ELSE /\ msg' = "error"
            /\ UNCHANGED db
    /\ UNCHANGED <<now, me, page, uname, weekStartISO, postsDb, commentsDb,
                   pageFields, logs, streakNow, activityMemos, profileMemos>>

\* src: ProfilePage.deleteLog, on a listed row of the viewer
ProfileDeleteLog(i, deleteOk, loadOk) ==
    /\ page = "profile"
    /\ i \in 1..Len(logs)
    /\ logs[i].user_id = me
    /\ IF deleteOk
       THEN /\ db' = db \ {logs[i]}
            /\ ProfilePostsFrom(postsDb)
            /\ ProfileLoadFrom(db \ {logs[i]}, loadOk)
       ELSE /\ msg' = "error"
            /\ UNCHANGED <<db, logs, streakNow, activityMemos, profileMemos,
                           posts>>
    /\ UNCHANGED <<now, me, page, uname, weekStartISO, postsDb, commentsDb,
                   typed, comments, inflight>>

\* src: ProfilePage.deletePost, on a listed post of the viewer
ProfileDeletePost(i, deleteOk, loadOk) ==
    /\ page = "profile"
    /\ i \in 1..Len(posts)
    /\ posts[i].user_id = me
    /\ IF deleteOk
       THEN /\ postsDb' = postsDb \ {posts[i]}
            /\ ProfilePostsFrom(postsDb \ {posts[i]})
            /\ ProfileLoadFrom(db, loadOk)
       ELSE /\ msg' = "error"
            /\ UNCHANGED <<postsDb, logs, streakNow, activityMemos, profileMemos,
                           posts>>
    /\ UNCHANGED <<now, me, page, uname, weekStartISO, db, commentsDb,
                   typed, comments, inflight>>

\* ------------------------------------------ FeedPage, PostDiscussionPage
\* src: content.length > 280 of createPost, content.length > 500 of addComment
PostMax == 280
CommentMax == 500
\* what is typed into a textarea: a sequence of symbols, "post-run" and
\* "comment-run" standing for PostMax and CommentMax characters that are
\* not white space
TextSymbols == {" ", "c", "post-run", "comment-run"}
Texts == UNION {[1..n -> TextSymbols] : n \in 0..MaxText}
Width(sym) ==
    IF sym = "post-run" THEN PostMax
    ELSE IF sym = "comment-run" THEN CommentMax
    ELSE 1
\* text.length
RECURSIVE Length(_)
Length(text) == IF text = << >> THEN 0 ELSE Width(Head(text)) + Length(Tail(text))

\* a faulty variant: the limit is passed by one character
TooLongByTwo(content, max) == Length(content) > max + 1
\* src: content.length > 280, content.length > 500
TooLong(content, max) == Length(content) > max

\* the post the discussion page is opened on, written by another user
DiscussedPost == [id |-> 0, user_id |-> "ub", content |-> <<"c">>]
\* the id of the next row of a table: ids rise with created_at
NextId(rows) == IF rows = {} THEN 1 ELSE 1 + (CHOOSE n \in {r.id : r \in rows} :
                                                \A r \in rows : r.id <= n)
\* src: .limit(300) of the comments query
CommentCap == 300
\* .order("created_at", {ascending: true}).limit(cap)
RECURSIVE OldestFirst(_)
OldestFirst(rows) ==
    IF rows = {} THEN << >>
    ELSE LET low == CHOOSE r \in rows : \A q \in rows : r.id <= q.id
         IN  <<low>> \o OldestFirst(rows \ {low})
CommentsFetch(rows, cap) ==
    LET s == OldestFirst(rows) IN SubSeq(s, 1, Min2(Len(s), cap))

\* src: the textarea of the feed and of the discussion page; onChange is setText
TypeText(text) ==
    /\ page \in {"feed", "post"}
    /\ typed' = text
    /\ UNCHANGED <<now, tables, me, page, uname, logs, msg, weekStartISO,
                   streakNow, activityMemos, profileMemos, posts, comments,
                   inflight>>

\* src: FeedPage.load, from the posts query on, against table rows
FeedLoadFrom(rows, ok) ==
    IF ok
    THEN /\ msg' = NoError
         /\ posts' = PostsFetch(rows, PostCap)
    ELSE /\ msg' = "error"
         /\ posts' = << >>

\* src: FeedPage.load (the mount effect)
FeedLoad(ok) ==
    /\ page = "feed"
    /\ me \in AllowedUsers
    /\ FeedLoadFrom(postsDb, ok)
    /\ UNCHANGED <<now, tables, me, page, uname, logs, weekStartISO, streakNow,
                   activityMemos, profileMemos, typed, comments, inflight>>

\* src: FeedPage.createPost, the handler of the Post button
CreatePost(insertOk, loadOk) ==
    /\ page = "feed"
    /\ me \in AllowedUsers
    /\ LET content == Trim(typed)
       IN  IF content = << >>
           THEN /\ msg' = "Write something first."
                /\ UNCHANGED <<postsDb, typed, posts>>
           ELSE IF TooLong(content, PostMax)
           THEN /\ msg' = "Max 280 characters."
                /\ UNCHANGED <<postsDb, typed, posts>>
           ELSE /\ Cardinality(postsDb) < MaxPosts
                /\ NextId(postsDb) < MaxPosts
                /\ IF insertOk
                   THEN LET row == [id |-> NextId(postsDb), user_id |-> me,
                                    content |-> content]
                        IN  /\ postsDb' = postsDb \cup {row}
                            /\ typed' = NoText
                            /\ FeedLoadFrom(postsDb \cup {row}, loadOk)
                   ELSE /\ msg' = "error"
                        /\ UNCHANGED <<postsDb, typed, posts>>
    /\ UNCHANGED <<now, db, commentsDb, me, page, uname, logs, weekStartISO,
                   streakNow, activityMemos, profileMemos, comments, inflight>>

\* src: FeedPage.deletePost, on a listed post of the viewer
FeedDeletePost(i, deleteOk, loadOk) ==
    /\ page = "feed"
    /\ me \in AllowedUsers
    /\ i \in 1..Len(posts)
    /\ posts[i].user_id = me
    /\ IF deleteOk
       THEN /\ postsDb' = postsDb \ {posts[i]}
            /\ FeedLoadFrom(postsDb \ {posts[i]}, loadOk)
       ELSE /\ msg' = "error"
            /\ UNCHANGED <<postsDb, posts>>
    /\ UNCHANGED <<now, db, commentsDb, me, page, uname, logs, weekStartISO,
                   streakNow, activityMemos, profileMemos, typed, comments,
                   inflight>>

\* router.push(`/post/${id}`): the discussion page of DiscussedPost mounts
OpenPost ==
    /\ page = "feed"
    /\ page' = "post"
    /\ uname' = "none"
    /\ Unmount
    /\ UNCHANGED <<now, tables, me>>

\* src: PostDiscussionPage.load, from the posts query on
PostLoadFrom(rows, ok) ==
    IF DiscussedPost \notin postsDb
    THEN /\ msg' = "Post not found."
         /\ comments' = << >>
    ELSE IF ok
    THEN /\ msg' = NoError
         /\ comments' = CommentsFetch(rows, CommentCap)
    ELSE /\ msg' = "error"
         /\ comments' = << >>

\* src: PostDiscussionPage.load (the effect on the route's post id)
PostLoad(ok) ==
    /\ page = "post"
    /\ me \in AllowedUsers
    /\ PostLoadFrom(commentsDb, ok)
    /\ UNCHANGED <<now, tables, me, page, uname, logs, weekStartISO, streakNow,
                   activityMemos, profileMemos, typed, posts, inflight>>

\* src: PostDiscussionPage.addComment, the handler of the Comment button
AddComment(insertOk, loadOk) ==
    /\ page = "post"
    /\ me \in AllowedUsers
    /\ LET content == Trim(typed)
       IN  IF content = << >>
           THEN /\ msg' = "Write a comment first."
                /\ UNCHANGED <<commentsDb, typed, comments>>
           ELSE IF TooLong(content, CommentMax)
           THEN /\ msg' = "Max 500 characters."
                /\ UNCHANGED <<commentsDb, typed, comments>>
           ELSE /\ Cardinality(commentsDb) < MaxComments
                /\ NextId(commentsDb) <= MaxComments
                /\ IF insertOk /\ DiscussedPost \in postsDb
                   THEN LET row == [id |-> NextId(commentsDb), user_id |-> me,
                                    content |-> content]
                        IN  /\ commentsDb' = commentsDb \cup {row}
                            /\ typed' = NoText
                            /\ PostLoadFrom(commentsDb \cup {row}, loadOk)
                   ELSE /\ msg' = "error"
                        /\ UNCHANGED <<commentsDb, typed, comments>>
    /\ UNCHANGED <<now, db, postsDb, me, page, uname, logs, weekStartISO,
                   streakNow, activityMemos, profileMemos, posts, inflight>>

\* src: PostDiscussionPage.deleteComment, on a listed comment of the viewer
DeleteComment(i, deleteOk, loadOk) ==
    /\ page = "post"
    /\ me \in AllowedUsers
    /\ i \in 1..Len(comments)
    /\ comments[i].user_id = me
    /\ IF deleteOk
       THEN /\ commentsDb' = commentsDb \ {comments[i]}
            /\ PostLoadFrom(commentsDb \ {comments[i]}, loadOk)
       ELSE /\ msg' = "error"
            /\ UNCHANGED <<commentsDb, comments>>
    /\ UNCHANGED <<now, db, postsDb, me, page, uname, logs, weekStartISO,
                   streakNow, activityMemos, profileMemos, typed, posts,
                   inflight>>

\* ------------------------------------- ProfilePage.load, await by await
\* a call of load(u) that waits for the answer of the profiles query
LoadRequest(u) == [uname |-> u, pc |-> "profiles", data |-> << >>]
\* src: ProfilePage.load, up to the profiles query: setMsg("")
StartLoad(u) ==
    /\ msg' = NoError
    /\ inflight' = Append(inflight, LoadRequest(u))
\* inflight without its k-th call
Without(k) == [i \in 1..(Len(inflight) - 1) |->
                  IF i < k THEN inflight[i] ELSE inflight[i + 1]]

\* router.push(`/profile/${username}`): ProfilePage mounts and its effect
\* calls load(usernameParam)
MountProfile(u) ==
    /\ page \in {"feed", "activity"}
    /\ me \in AllowedUsers
    /\ page' = "profile"
    /\ uname' = u
    /\ msg' = NoError
    /\ weekStartISO' = toISOString(startOfWeekMondayLocal(now))
    /\ ProfileRender(<< >>, toISOString(startOfWeekMondayLocal(now)))
    /\ typed' = NoText
    /\ posts' = << >>
    /\ comments' = << >>
    /\ inflight' = <<LoadRequest(u)>>
    /\ UNCHANGED <<now, tables, me>>

\* src: the effect on [usernameParam]: the route's username changes under
\* the mounted page and load(usernameParam) is called
RouteChange(u) ==
    /\ page = "profile"
    /\ u # uname
    /\ Len(inflight) < MaxInflight
    /\ uname' = u
    /\ StartLoad(u)
    /\ UNCHANGED <<now, tables, me, page, logs, weekStartISO, streakNow,
                   activityMemos, profileMemos, typed, posts, comments>>

\* src: ProfilePage.load, the profiles query answers with the profile of
\* the username: setProfile, and the posts query is sent
ProfilesAnswered(k) ==
    /\ page = "profile"
    /\ k \in 1..Len(inflight)
    /\ inflight[k].pc = "profiles"
    /\ inflight' = [inflight EXCEPT ![k].pc = "posts"]
    /\ UNCHANGED <<now, tables, me, page, uname, logs, msg, weekStartISO,
                   streakNow, activityMemos, profileMemos, typed, posts, comments>>

\* src: ProfilePage.load, the posts query answers: setPosts; the
\* activity_logs query is sent and the backend reads the rows
PostsAnswered(k) ==
    /\ page = "profile"
    /\ k \in 1..Len(inflight)
    /\ inflight[k].pc = "posts"
    /\ posts' = PostsFetch({q \in postsDb : q.user_id = inflight[k].uname}, PostCap)
    /\ \E data \in Fetch({l \in db : l.user_id = inflight[k].uname}, Since,
                          ProfileRowCap) :
           inflight' = [inflight EXCEPT ![k].pc = "logs", ![k].data = data]
    /\ UNCHANGED <<now, tables, me, page, uname, logs, msg, weekStartISO,
                   streakNow, activityMemos, profileMemos, typed, comments>>

\* src: ProfilePage.load, the activity_logs query answers: setMsg on an
\* error, setLogs(logData ?? []), and the call returns
LogsAnswered(k, ok) ==
    /\ page = "profile"
    /\ k \in 1..Len(inflight)
    /\ inflight[k].pc = "logs"
    /\ IF ok
       THEN /\ ProfileRender(inflight[k].data, weekStartISO)
            /\ UNCHANGED msg
       ELSE /\ ProfileRender(<< >>, weekStartISO)
            /\ msg' = "error"
    /\ inflight' = Without(k)
    /\ UNCHANGED <<now, tables, me, page, uname, weekStartISO, typed, posts,
                   comments>>

\* src: ProfilePage.deleteLog on a listed row of the viewer, the reload
\* started and not awaited to its end
DeleteLogThenLoad(i, deleteOk) ==
    /\ page = "profile"
    /\ i \in 1..Len(logs)
    /\ logs[i].user_id = me
    /\ Len(inflight) < MaxInflight
    /\ IF deleteOk
       THEN /\ db' = db \ {logs[i]}
            /\ StartLoad(uname)
       ELSE /\ msg' = "error"
            /\ UNCHANGED <<db, inflight>>
    /\ UNCHANGED <<now, postsDb, commentsDb, me, page, uname, logs, weekStartISO,
                   streakNow, activityMemos, profileMemos, typed, posts, comments>>

\* the steps that do not depend on what the form holds
Navigate ==
    \/ Tick
    \/ \E u \in Users : SignIn(u)
    \/ SignOut
    \/ OpenFeed
    \/ OpenActivity
    \/ \E u \in Users : OpenProfile(u)
    \/ \E ok \in BOOLEAN : ActivityLoad(ok)
    \/ \E ok \in BOOLEAN : ProfileLoad(ok)
    \/ \E i \in 1..MaxRows, dOk, lOk \in BOOLEAN : ActivityDeleteLog(i, dOk, lOk)
    \/ \E i \in 1..MaxRows, dOk, lOk \in BOOLEAN : ProfileDeleteLog(i, dOk, lOk)

\* rows of every category and minutes value, dated when they are logged
CreateLogTotals ==
    \E cat \in Categories, m \in FormMinutes, iOk, lOk \in BOOLEAN :
        CreateLog(cat, m, Blank, iOk, lOk)

\* rows of one category and minutes value, dated anywhere in the window
CreateLogStreak ==
    \E when \in FormWhen(RecordInstants), iOk, lOk \in BOOLEAN :
        CreateLog("study", <<1>>, when, iOk, lOk)

NextTotals == Navigate \/ CreateLogTotals
NextStreak == Navigate \/ CreateLogStreak

\* the clock starts anywhere in the week before; the table stays empty
InitWeek ==
    /\ now \in WeekInstants
    /\ db = {}
    /\ me = "none"
    /\ page = "login"
    /\ uname = "none"
    /\ logs = << >>
    /\ msg = NoError
    /\ weekStartISO = NoISO
    /\ streakNow = 0
    /\ weeklyLogs = << >>
    /\ totalsByUser = << >>
    /\ maxBar = 1
    /\ bars = [cat \in Categories |-> << >>]
    /\ streakByUser = [u \in {} |-> 0]
    /\ weeklyTotals = ZeroTotals
    /\ streak = 0
    /\ NoContent

NextWeek ==
    \/ Tick
    \/ \E u \in Users : SignIn(u)
    \/ SignOut
    \/ OpenFeed
    \/ OpenActivity
    \/ \E u \in Users : OpenProfile(u)
    \/ \E ok \in BOOLEAN : ActivityLoad(ok)
    \/ \E ok \in BOOLEAN : ProfileLoad(ok)

\* the table already holds rows when the first page opens: up to MaxRows of
\* the given rows
InitTable(rows) ==
    /\ now = NowStart
    /\ db \in {t \in SUBSET rows : Cardinality(t) <= MaxRows}
    /\ me = "none"
    /\ page = "login"
    /\ uname = "none"
    /\ logs = << >>
    /\ msg = NoError
    /\ weekStartISO = NoISO
    /\ streakNow = 0
    /\ weeklyLogs = << >>
    /\ totalsByUser = << >>
    /\ maxBar = 1
    /\ bars = [cat \in Categories |-> << >>]
    /\ streakByUser = [u \in {} |-> 0]
    /\ weeklyTotals = ZeroTotals
    /\ streak = 0
    /\ NoContent

\* rows dated at the first value of the clock
RowsAtStart(owners, cats, mins) ==
    {[user_id |-> u, category |-> c, minutes |-> m,
      occurred_at |-> toISOString(NowStart), profiles |-> ProfileOf(u)] :
        u \in owners, c \in cats, m \in mins}

\* rows whose category may be outside the Category type
InitBadCategory ==
    InitTable(RowsAtStart(Users, {"study", UnknownCategory}, {<<MaxMinutes>>}))
\* rows whose minutes may be null, undefined or a string
InitOddMinutes ==
    InitTable(RowsAtStart(Users, {"study"},
                  {NullMinutes, UndefinedMinutes, <<MaxMinutes>>,
                   StringMinutes(MaxMinutes + 1)}))
\* rows whose owner id may be a canonical array index
InitOwnerIds ==
    InitTable(RowsAtStart({"ua"} \cup IndexLikeIds, {"study"}, {<<MaxMinutes>>}))

\* rows that may have come without the joined profiles
InitNoProfiles ==
    InitTable(LET rows == RowsAtStart(Users, {"study"}, {NullMinutes, <<MaxMinutes>>})
              IN  rows \cup {[r EXCEPT !.profiles = NoProfiles] : r \in rows})

\* the browser opens the app holding a session of a user of the auth backend
\* whose email is not in the allow-list; the feed mounts
SessionOpens ==
    /\ page = "login"
    /\ me = "none"
    /\ me' = Outsider
    /\ page' = "feed"
    /\ UNCHANGED <<now, tables, uname, pageState>>

\* src: LoginPage.signIn with an email that is not in the allow-list:
\* the message, and no call of signInWithPassword
SignInRefused ==
    /\ page = "login"
    /\ me = "none"
    /\ msg' = "This account is not allowed."
    /\ UNCHANGED <<now, tables, me, page, uname, logs, weekStartISO, streakNow,
                   activityMemos, profileMemos, pageFields>>

\* src: load of the feed, the dashboard and the profile page, up to the
\* allow-list test, for a session that fails it
LoadDenied ==
    /\ page \in {"feed", "activity", "profile"}
    /\ me \notin AllowedUsers \cup {"none"}
    /\ Denied
    /\ UNCHANGED <<now, tables>>

NextAuth ==
    \/ Navigate
    \/ SessionOpens
    \/ SignInRefused
    \/ LoadDenied
    \/ \E iOk, lOk \in BOOLEAN : CreateLog("study", <<MaxMinutes>>, Blank, iOk, lOk)

SpecAuth == Init /\ [][NextAuth]_vars

\* the quick-log form with anything typed into its minutes field, one user
\* signing in and out
FormUser == "ua"
NextForm ==
    \/ SignIn(FormUser)
    \/ SignOut
    \/ OpenFeed
    \/ OpenActivity
    \/ \E text \in MinutesTexts : TypeMinutes(text)
    \/ \E iOk, lOk \in BOOLEAN : SubmitForm(iOk, lOk)
    \/ \E i \in 1..MaxRows, dOk, lOk \in BOOLEAN : ActivityDeleteLog(i, dOk, lOk)

SpecForm == Init /\ [][NextForm]_vars

SpecBadCategory == InitBadCategory /\ [][Navigate]_vars
SpecOddMinutes == InitOddMinutes /\ [][Navigate]_vars
SpecOwnerIds == InitOwnerIds /\ [][Navigate]_vars
SpecNoProfiles == InitNoProfiles /\ [][Navigate]_vars

\* the profile page with its loads taken one await at a time
InitRace == InitTable(RowsAtStart(Users, {"study"}, {NullMinutes, <<MaxMinutes>>}))
NextRace ==
    \/ \E u \in Users : SignIn(u)
    \/ OpenFeed
    \/ \E u \in Users : MountProfile(u)
    \/ \E u \in Users : RouteChange(u)
    \/ \E k \in 1..MaxInflight : ProfilesAnswered(k)
    \/ \E k \in 1..MaxInflight : PostsAnswered(k)
    \/ \E k \in 1..MaxInflight, ok \in BOOLEAN : LogsAnswered(k, ok)
    \/ \E i \in 1..MaxRows, dOk \in BOOLEAN : DeleteLogThenLoad(i, dOk)
SpecRace == InitRace /\ [][NextRace]_vars

\* the feed and the discussion page of a post, with anything typed into
\* their textareas; the posts table holds the post under discussion
InitContent ==
    /\ now = NowStart
    /\ db = {}
    /\ me = "none"
    /\ page = "login"
    /\ uname = "none"
    /\ logs = << >>
    /\ msg = NoError
    /\ weekStartISO = NoISO
    /\ streakNow = 0
    /\ weeklyLogs = << >>
    /\ totalsByUser = << >>
    /\ maxBar = 1
    /\ bars = [cat \in Categories |-> << >>]
    /\ streakByUser = [u \in {} |-> 0]
    /\ weeklyTotals = ZeroTotals
    /\ streak = 0
    /\ postsDb = {DiscussedPost}
    /\ commentsDb = {}
    /\ typed = NoText
    /\ posts = << >>
    /\ comments = << >>
    /\ inflight = << >>
NextContent ==
    \/ SignIn(FormUser)
    \/ SignOut
    \/ OpenFeed
    \/ OpenPost
    \/ \E text \in Texts : TypeText(text)
    \/ \E ok \in BOOLEAN : FeedLoad(ok)
    \/ \E iOk, lOk \in BOOLEAN : CreatePost(iOk, lOk)
    \/ \E i \in 1..MaxPosts, dOk, lOk \in BOOLEAN : FeedDeletePost(i, dOk, lOk)
    \/ \E ok \in BOOLEAN : PostLoad(ok)
    \/ \E iOk, lOk \in BOOLEAN : AddComment(iOk, lOk)
    \/ \E i \in 1..MaxComments, dOk, lOk \in BOOLEAN : DeleteComment(i, dOk, lOk)
SpecContent == InitContent /\ [][NextContent]_vars

\* the four pages with their delete buttons, on tables that hold rows,
\* posts and a comment of the viewer and of another user
OwnPost == [id |-> 1, user_id |-> FormUser, content |-> <<"c">>]
OwnComment == [id |-> 1, user_id |-> FormUser, content |-> <<"c">>]
RowsAtDelete ==
    LET rows == RowsAtStart(Users, {"study"}, {<<MaxMinutes>>})
    IN  rows \cup {[r EXCEPT !.occurred_at = toISOString(NowStart - TicksPerDay)] :
                      r \in {q \in rows : q.user_id = FormUser}}
InitDelete ==
    /\ now = NowStart
    /\ db = RowsAtDelete
    /\ me = "none"
    /\ page = "login"
    /\ uname = "none"
    /\ logs = << >>
    /\ msg = NoError
    /\ weekStartISO = NoISO
    /\ streakNow = 0
    /\ weeklyLogs = << >>
    /\ totalsByUser = << >>
    /\ maxBar = 1
    /\ bars = [cat \in Categories |-> << >>]
    /\ streakByUser = [u \in {} |-> 0]
    /\ weeklyTotals = ZeroTotals
    /\ streak = 0
    /\ postsDb = {DiscussedPost, OwnPost}
    /\ commentsDb = {OwnComment}
    /\ typed = NoText
    /\ posts = << >>
    /\ comments = << >>
    /\ inflight = << >>
NextDelete ==
    \/ Tick
    \/ SignIn(FormUser)
    \/ OpenFeed
    \/ OpenActivity
    \/ \E u \in Users : OpenProfile(u)
    \/ OpenPost
    \/ \E ok \in BOOLEAN : FeedLoad(ok)
    \/ \E ok \in BOOLEAN : ActivityLoad(ok)
    \/ \E ok \in BOOLEAN : ProfileLoad(ok)
    \/ \E ok \in BOOLEAN : PostLoad(ok)
    \/ \E i \in 1..MaxPosts, dOk, lOk \in BOOLEAN : FeedDeletePost(i, dOk, lOk)
    \/ \E i \in 1..MaxRows, dOk, lOk \in BOOLEAN : ActivityDeleteLog(i, dOk, lOk)
    \/ \E i \in 1..MaxRows, dOk, lOk \in BOOLEAN : ProfileDeleteLog(i, dOk, lOk)
    \/ \E i \in 1..MaxPosts, dOk, lOk \in BOOLEAN : ProfileDeletePost(i, dOk, lOk)
    \/ \E i \in 1..MaxComments, dOk, lOk \in BOOLEAN : DeleteComment(i, dOk, lOk)
SpecDelete == InitDelete /\ [][NextDelete]_vars

SpecTotals == Init /\ [][NextTotals]_vars
SpecWeek == InitWeek /\ [][NextWeek]_vars
SpecStreak == Init /\ [][NextStreak]_vars

\* ============================================================ properties
\* reference notions, stated on local day numbers and instants
Indices(lg) == 1..Len(lg)
\* what a row's minutes are worth: the number, 0 for anything else
RowMinutes(l) == IF Len(l.minutes) = 1 THEN l.minutes[1] ELSE 0
InWeek(l) == OccurredAt(l) >= ParseISO(weekStartISO)
Owners(lg) == {lg[i].user_id : i \in Indices(lg)}
RowsOf(lg, u) == {i \in Indices(lg) : lg[i].user_id = u}

\* the sum of the minutes of the rows of lg at the indices idx
RECURSIVE SumMinutes(_, _)
SumMinutes(lg, idx) ==
    IF idx = {} THEN 0
    ELSE LET i == CHOOSE j \in idx : TRUE
         IN  RowMinutes(lg[i]) + SumMinutes(lg, idx \ {i})

\* the local day numbers on which the rows at idx fall
ActiveDayNos(lg, idx) == {LocalDayNo(OccurredAt(lg[i])) : i \in idx}
Today == LocalDayNo(streakNow)
\* the day the count starts from
StartDay(active) == IF Today \in active THEN Today ELSE Today - 1
\* the number of consecutive active days ending at day d
RunLength(active, d) ==
    CHOOSE k \in 0..Cardinality(active) :
        /\ \A i \in 0..(k - 1) : (d - i) \in active
        /\ (d - k) \notin active
\* the first inactive day at or behind day d
FirstGap(active, d) ==
    CHOOSE g \in (d - Cardinality(active))..d :
        /\ g \notin active
        /\ \A e \in (g + 1)..d : e \in active

OnProfile == page = "profile"
OnActivity == page = "activity"
ProfileDays == ActiveDayNos(logs, Indices(logs))
UserDays(u) == ActiveDayNos(logs, RowsOf(logs, u))

\* C1: the weekly totals of the profile page and every per-user summary of
\* the dashboard have all = study + skill + exercise
C1_SumInvariant ==
    /\ weeklyTotals.all =
           weeklyTotals.study + weeklyTotals.skill + weeklyTotals.exercise
    /\ \A i \in Indices(totalsByUser) :
           totalsByUser[i].all =
               totalsByUser[i].study + totalsByUser[i].skill + totalsByUser[i].exercise
\* two summaries on the dashboard, one of them with minutes in two categories
C1_Witness ==
    /\ OnActivity
    /\ Len(totalsByUser) = 2
    /\ \E i \in Indices(totalsByUser) :
           /\ totalsByUser[i].all >= 2
           /\ Cardinality({c \in Categories : totalsByUser[i][c] > 0}) >= 2

\* C2: the streak is the number of consecutive active days counted backward
\* from today when today is active and from yesterday otherwise, up to the
\* first day that is not active
C2_StreakIsRunLength ==
    /\ OnProfile => streak = RunLength(ProfileDays, StartDay(ProfileDays))
    /\ OnActivity =>
           \A u \in DOMAIN streakByUser :
               streakByUser[u] = RunLength(UserDays(u), StartDay(UserDays(u)))
\* a profile whose three rows fall on three consecutive days
C2_Witness ==
    /\ OnProfile
    /\ Cardinality(ProfileDays) = 3
    /\ streak = 3

\* C3: with no row today and a row yesterday the streak is not 0: it is the
\* run of consecutive active days that ends yesterday
C3_GraceRule ==
    /\ (OnProfile /\ Today \notin ProfileDays /\ (Today - 1) \in ProfileDays) =>
           /\ streak >= 1
           /\ streak = RunLength(ProfileDays, Today - 1)
    /\ OnActivity =>
           \A u \in DOMAIN streakByUser :
               (Today \notin UserDays(u) /\ (Today - 1) \in UserDays(u)) =>
                   /\ streakByUser[u] >= 1
                   /\ streakByUser[u] = RunLength(UserDays(u), Today - 1)
\* active days {yesterday, the day before}, nothing today: the streak is 2
C3_Witness ==
    /\ OnProfile
    /\ ProfileDays = {Today - 1, Today - 2}
    /\ streak = 2

\* C4: the count stops at the first inactive day behind the starting day:
\* the streak is the number of active days after that gap, whatever older
\* active days there are
C4_GapTermination ==
    /\ OnProfile =>
           LET g == FirstGap(ProfileDays, StartDay(ProfileDays))
           IN  streak = Cardinality({d \in ProfileDays : d > g})
                          - Cardinality({d \in ProfileDays : d > StartDay(ProfileDays)})
    /\ OnActivity =>
           \A u \in DOMAIN streakByUser :
               LET g == FirstGap(UserDays(u), StartDay(UserDays(u)))
               IN  streakByUser[u] =
                       Cardinality({d \in UserDays(u) : d > g})
                         - Cardinality({d \in UserDays(u) : d > StartDay(UserDays(u))})
\* active days {today, yesterday, 3 days ago}: the streak is 2
C4_Witness ==
    /\ OnProfile
    /\ ProfileDays = {Today, Today - 1, Today - 3}
    /\ streak = 2

\* C5: when neither today nor yesterday is active the streak is 0, whatever
\* older active days there are
C5_GraceOnce ==
    /\ (OnProfile /\ Today \notin ProfileDays /\ (Today - 1) \notin ProfileDays) =>
           streak = 0
    /\ OnActivity =>
           \A u \in DOMAIN streakByUser :
               (Today \notin UserDays(u) /\ (Today - 1) \notin UserDays(u)) =>
                   streakByUser[u] = 0
\* rows two and three days ago, none today or yesterday: the streak is 0
C5_Witness ==
    /\ OnProfile
    /\ ProfileDays = {Today - 2, Today - 3}
    /\ streak = 0

\* C6: startOfWeek(now) is local midnight of the Monday on or before now:
\* the same week's Monday for a Monday-to-Saturday now, the Monday 6 days
\* earlier for a Sunday now.  Checked on every mount of a page, the step
\* that computes weekStart from new Date()
C6_WeekStartOnMount ==
    (page' # page /\ page' \in {"activity", "profile"}) =>
        LET w == ParseISO(weekStartISO')
        IN  /\ getDay(w) = 1
            /\ LocalTickOfDay(w) = 0
            /\ w <= now
            /\ LocalDayNo(now) - LocalDayNo(w) =
                   (IF getDay(now) = 0 THEN 6 ELSE getDay(now) - 1)
C6_WeekStart == [][C6_WeekStartOnMount]_vars
\* a page mounted on a Sunday whose week started 6 days before
C6_Witness ==
    /\ OnActivity
    /\ getDay(now) = 0
    /\ getDay(ParseISO(weekStartISO)) = 1
    /\ LocalDayNo(now) - LocalDayNo(ParseISO(weekStartISO)) = 6

\* C7: a row counts in the weekly totals exactly when its instant is >= the
\* week start: at the week start it counts, before it does not, and later
\* rows, future ones too, all count
C7_WeekWindow ==
    /\ OnProfile =>
           /\ \A c \in Categories :
                  weeklyTotals[c] =
                      SumMinutes(logs, {i \in Indices(logs) :
                                          logs[i].category = c /\ InWeek(logs[i])})
           /\ weeklyTotals.all =
                  SumMinutes(logs, {i \in Indices(logs) : InWeek(logs[i])})
    /\ OnActivity =>
           /\ Len(weeklyLogs) = Cardinality({i \in Indices(logs) : InWeek(logs[i])})
           /\ \A i \in Indices(logs) :
                  InWeek(logs[i]) <=> (\E j \in Indices(weeklyLogs) : weeklyLogs[j] = logs[i])
\* a profile with a row before the week start, one exactly at it and one
\* dated after now: the last two count
C7_Witness ==
    /\ OnProfile
    /\ \E i, j, k \in Indices(logs) :
           /\ OccurredAt(logs[i]) < ParseISO(weekStartISO)
           /\ OccurredAt(logs[j]) = ParseISO(weekStartISO)
           /\ OccurredAt(logs[k]) > now
    /\ weeklyTotals.all = 2

\* C8: byUser has exactly one summary per owner of a row of the current
\* week, none for an owner whose rows are all older, and each summary's
\* study, skill and exercise are the sums of that owner's weekly minutes
C8_ByUser ==
    OnActivity =>
        /\ {totalsByUser[i].user_id : i \in Indices(totalsByUser)} =
               {logs[j].user_id : j \in {k \in Indices(logs) : InWeek(logs[k])}}
        /\ \A i, j \in Indices(totalsByUser) :
               i # j => totalsByUser[i].user_id # totalsByUser[j].user_id
        /\ \A i \in Indices(totalsByUser) : \A c \in Categories :
               totalsByUser[i][c] =
                   SumMinutes(logs, {j \in Indices(logs) :
                                       /\ logs[j].user_id = totalsByUser[i].user_id
                                       /\ logs[j].category = c
                                       /\ InWeek(logs[j])})
\* two owners listed, one with older rows only: a single summary, which
\* adds up two rows
C8_Witness ==
    /\ OnActivity
    /\ Cardinality(Owners(logs)) = 2
    /\ Len(weeklyLogs) = 2
    /\ Len(totalsByUser) = 1
    /\ totalsByUser[1].all = 2

\* C9: streakByUser has an entry for every owner of the full list, and each
\* owner's streak is the streak of that owner's rows alone, days before the
\* week start included
C9_StreakByUser ==
    OnActivity =>
        /\ DOMAIN streakByUser = Owners(logs)
        /\ \A u \in Owners(logs) :
               streakByUser[u] = RunLength(UserDays(u), StartDay(UserDays(u)))
\* today is the Monday the week starts on: one owner's streak of 2 counts
\* the Sunday before, the other owner has a row on that Sunday only
C9_Witness ==
    /\ OnActivity
    /\ Today = LocalDayNo(ParseISO(weekStartISO))
    /\ \E u, v \in Owners(logs) :
           /\ u # v
           /\ UserDays(u) = {Today, Today - 1}
           /\ streakByUser[u] = 2
           /\ UserDays(v) = {Today - 1}
           /\ streakByUser[v] = 1

\* the largest study, skill or exercise value over the summaries
SummaryValues == {totalsByUser[i][c] : i \in Indices(totalsByUser), c \in Categories}
TrueMax == CHOOSE v \in SummaryValues : \A w \in SummaryValues : w <= v
BarsInRange ==
    \A c \in Categories : \A i \in Indices(totalsByUser) :
        bars[c][i] \in 0..100
MaxHolderIs100 ==
    \A c \in Categories : \A i \in Indices(totalsByUser) :
        totalsByUser[i][c] = TrueMax => bars[c][i] = 100

\* C10 as stated: every bar percentage is in [0, 100] and the summary
\* holding the largest value maps to exactly 100
C10_Original ==
    OnActivity => (BarsInRange /\ (totalsByUser # << >> => MaxHolderIs100))
\* C10: every bar percentage is in [0, 100], and the summary holding the
\* largest value maps to exactly 100 when that value is at least 1
C10_ScalingBound ==
    OnActivity =>
        /\ BarsInRange
        /\ (totalsByUser # << >> /\ TrueMax >= 1) => MaxHolderIs100
\* a largest value of 2 or more, at 100, beside a bar in between
C10_Witness ==
    /\ OnActivity
    /\ totalsByUser # << >>
    /\ TrueMax >= 2
    /\ \E c \in Categories : \E i \in Indices(totalsByUser) :
           bars[c][i] \in 1..99

\* C11: the chart normaliser is the largest single study, skill or exercise
\* value over all summaries, and 1 when that value is below 1 or there is
\* no summary: it is never 0, so no bar percentage divides by zero
C11_MaxBarFloor ==
    OnActivity =>
        /\ maxBar >= 1
        /\ maxBar = (IF totalsByUser = << >> THEN 1
                     ELSE IF TrueMax < 1 THEN 1 ELSE TrueMax)
\* summaries exist and all their values are 0: the normaliser is 1
C11_Witness ==
    /\ OnActivity
    /\ totalsByUser # << >>
    /\ TrueMax = 0
    /\ maxBar = 1

\* a listed row of the current week whose category is not study, skill or
\* exercise
UnknownCategoryListed ==
    \E i \in Indices(logs) : InWeek(logs[i]) /\ logs[i].category \notin Categories

\* C12: a row of unknown category makes the aggregator fail loudly: the
\* page holding such a row of the week reports a failure instead of
\* showing totals computed as if nothing was wrong
C12_FailsLoudly ==
    ((OnProfile \/ OnActivity) /\ UnknownCategoryListed) => msg # NoError

\* the list with every minutes value that is not a number set to 0
Zeroed(lg) ==
    [i \in 1..Len(lg) |->
        IF Len(lg[i].minutes) = 1 THEN lg[i] ELSE [lg[i] EXCEPT !.minutes = <<0>>]]
\* C13: a row whose minutes are absent, null or not a number adds exactly 0
\* to its category and to all, and the totals are those of the same list
\* with these minutes set to 0
C13_MinutesCoercion ==
    /\ OnProfile =>
           /\ weeklyTotals = ProfileWeeklyTotals(Zeroed(logs), weekStartISO)
           /\ weeklyTotals.all =
                  SumMinutes(logs, {i \in Indices(logs) : InWeek(logs[i])})
    /\ OnActivity =>
           /\ totalsByUser = TotalsByUser(WeeklyLogs(Zeroed(logs), weekStartISO))
           /\ \A i \in Indices(totalsByUser) :
                  totalsByUser[i].all =
                      SumMinutes(logs, {j \in Indices(logs) :
                                          /\ logs[j].user_id = totalsByUser[i].user_id
                                          /\ InWeek(logs[j])})
\* a profile listing a null, an undefined and a string minutes value in the
\* current week: the totals are all 0
C13_Witness ==
    /\ OnProfile
    /\ {logs[i].minutes : i \in {j \in Indices(logs) : InWeek(logs[j])}} =
           {NullMinutes, UndefinedMinutes, StringMinutes(MaxMinutes + 1)}
    /\ weeklyTotals = ZeroTotals

\* C14: on an empty record list every aggregator returns its zero: weekly
\* totals of 0 in every field whatever the week start, a streak of 0, an
\* empty byUser list and an empty streak map
C14_EmptyInput ==
    /\ (OnProfile /\ logs = << >>) =>
           /\ weeklyTotals = ZeroTotals
           /\ streak = 0
    /\ (OnActivity /\ logs = << >>) =>
           /\ weeklyLogs = << >>
           /\ totalsByUser = << >>
           /\ DOMAIN streakByUser = {}
\* a profile mounted on the Monday, its list empty after a load
C14_Witness ==
    /\ OnProfile
    /\ logs = << >>
    /\ ParseISO(weekStartISO) = MondayMidnight
    /\ streakNow = now

\* the index of the first row of lg owned by u
FirstIndex(lg, u) ==
    CHOOSE i \in Indices(lg) :
        /\ lg[i].user_id = u
        /\ \A j \in 1..(i - 1) : lg[j].user_id # u

\* C15: the byUser list is ordered by the first appearance of each owner in
\* the weekly rows, whatever the owner ids are
C15_FirstAppearanceOrder ==
    OnActivity =>
        \A i, j \in Indices(totalsByUser) :
            i < j => FirstIndex(weeklyLogs, totalsByUser[i].user_id)
                       < FirstIndex(weeklyLogs, totalsByUser[j].user_id)

\* every order of the rows of a list
Perms(lg) ==
    {[i \in Indices(lg) |-> lg[f[i]]] :
        f \in {g \in [Indices(lg) -> Indices(lg)] :
                  \A a, b \in Indices(lg) : a # b => g[a] # g[b]}}
Range(seq) == {seq[i] : i \in DOMAIN seq}

\* weekly totals, streak and streak map are the same for every order of the
\* listed rows
ScalarsOrderFree ==
    /\ OnProfile =>
           \A p \in Perms(logs) :
               /\ ProfileWeeklyTotals(p, weekStartISO) = weeklyTotals
               /\ ProfileStreak(p, streakNow) = streak
    /\ OnActivity =>
           \A p \in Perms(logs) : StreakByUser(p, streakNow) = streakByUser

\* C16 as stated: for every order of the same rows the weekly totals, the
\* streak, the streak map and the byUser output are the same
C16_Original ==
    /\ ScalarsOrderFree
    /\ OnActivity =>
           \A p \in Perms(logs) :
               TotalsByUser(WeeklyLogs(p, weekStartISO)) = totalsByUser
\* C16: for every order of the same rows the weekly totals, the streak and
\* the streak map are the same, and the byUser output holds the same
\* summaries; the order of its summaries may differ
C16_OrderIndependence ==
    /\ ScalarsOrderFree
    /\ OnActivity =>
           \A p \in Perms(logs) :
               LET out == TotalsByUser(WeeklyLogs(p, weekStartISO))
               IN  /\ Len(out) = Len(totalsByUser)
                   /\ Range(out) = Range(totalsByUser)
\* two owners in the current week: another order of the same rows gives the
\* same two summaries in the other order
C16_Witness ==
    /\ OnActivity
    /\ Len(totalsByUser) = 2
    /\ \E p \in Perms(logs) :
           LET out == TotalsByUser(WeeklyLogs(p, weekStartISO))
           IN  /\ out[1] = totalsByUser[2]
               /\ out[2] = totalsByUser[1]

\* C17: an aggregator called again with the same rows, the same week start
\* and the same clock value gives what the page holds from its last pass:
\* every derived value is a function of these inputs alone, whatever was
\* computed before
C17_Idempotence ==
    /\ OnProfile =>
           /\ weeklyTotals = ProfileWeeklyTotals(logs, weekStartISO)
           /\ streak = ProfileStreak(logs, streakNow)
    /\ OnActivity =>
           /\ weeklyLogs = WeeklyLogs(logs, weekStartISO)
           /\ totalsByUser = TotalsByUser(weeklyLogs)
           /\ maxBar = MaxBar(totalsByUser)
           /\ streakByUser = StreakByUser(logs, streakNow)
\* a profile, after the clock has moved on, that lists one of the two rows
\* of the table: a streak of 1 and one minute this week
C17_Witness ==
    /\ OnProfile
    /\ streak = 1
    /\ weeklyTotals.all = 1
    /\ Len(logs) = 1
    /\ Cardinality(db) = 2
    /\ now = NowStart + 1

\* C18: the week start is computed again from the clock on each aggregation
\* pass: a page whose memos ran at the current clock value windows by the
\* Monday of the current week
C18_WeekStartPerPass ==
    ((OnProfile \/ OnActivity) /\ streakNow = now /\ msg = NoError) =>
        ParseISO(weekStartISO) = startOfWeekMondayLocal(now)

\* a load of the mounted page whose retrieval fails
FailedLoad == ActivityLoad(FALSE) \/ ProfileLoad(FALSE)
C19_FailedLoadStep ==
    FailedLoad =>
        /\ msg' # NoError
        /\ UNCHANGED <<logs, activityMemos, profileMemos>>
\* C19: when the retrieval fails the error is shown and the aggregation is
\* halted: the step leaves the list and every derived value as they were,
\* no aggregator runs on a stand-in for the missing result
C19_HaltOnError == [][C19_FailedLoadStep]_vars

\* C20: no row is inserted and no list is read on behalf of a signed-in user
\* whose email is not in the allow-list
C20_AllowListOnly ==
    /\ \A l \in db : l.user_id \in AllowedUsers
    /\ (me \notin AllowedUsers \cup {"none"}) => logs = << >>

\* the typed text is blank; it is a digit string or -0...0, white space at
\* its ends aside
BlankText(text) == \A i \in 1..Len(text) : text[i] = " "
Core(text) ==
    LET inked == {i \in 1..Len(text) : text[i] # " "}
    IN  IF inked = {} THEN << >>
        ELSE SubSeq(text, CHOOSE i \in inked : \A j \in inked : i <= j,
                          CHOOSE i \in inked : \A j \in inked : i >= j)
NonNegativeNumeral(text) ==
    LET c == Core(text)
    IN  /\ c # << >>
        /\ \/ \A i \in 1..Len(c) : c[i] \in Digits
           \/ /\ Len(c) >= 2
              /\ c[1] = "-"
              /\ \A i \in 2..Len(c) : c[i] = "0"
C21_SubmitStep ==
    \A iOk, lOk \in BOOLEAN :
        SubmitForm(iOk, lOk) =>
            /\ \A l \in db' \ db :
                   \/ l.minutes = NullMinutes
                   \/ Len(l.minutes) = 1 /\ l.minutes[1] >= 0
            /\ BlankText(typed) => \A l \in db' \ db : l.minutes = NullMinutes
            /\ (~BlankText(typed) /\ ~NonNegativeNumeral(typed)) =>
                   /\ db' = db
                   /\ msg' = MinutesMsg
\* C21: createLog never inserts a row whose minutes are negative or not a
\* finite number; a blank minutes field is sent as null; a rejected value
\* sets the message and inserts nothing
C21_MinutesValidated == [][C21_SubmitStep]_vars
\* the dashboard showing the rejection message, the table holding a row
\* logged with a blank field and a row logged with a number
C21_Witness ==
    /\ OnActivity
    /\ msg = MinutesMsg
    /\ typed = <<"-", "3">>
    /\ \E l \in db : l.minutes = NullMinutes
    /\ \E l \in db : Len(l.minutes) = 1 /\ l.minutes[1] > 1

\* C22: a summary seeded from a row without profiles is named "Unknown" and
\* "unknown", and every summary carries the names of the first weekly row of
\* its owner, whatever the later rows of that owner carry
C22_SummaryIdentity ==
    OnActivity =>
        \A i \in Indices(totalsByUser) :
            LET s == totalsByUser[i]
                l == weeklyLogs[FirstIndex(weeklyLogs, s.user_id)]
            IN  IF l.profiles = NoProfiles
                THEN s.display_name = "Unknown" /\ s.username = "unknown"
                ELSE /\ s.display_name = l.profiles[1].display_name
                     /\ s.username = l.profiles[1].username
\* the dashboard lists an owner whose first weekly row has no profiles and
\* whose later row has one, next to an owner whose rows are the other way round
C22_Witness ==
    /\ OnActivity
    /\ \E i, j \in Indices(totalsByUser) :
           /\ totalsByUser[i].display_name = "Unknown"
           /\ totalsByUser[i].username = "unknown"
           /\ totalsByUser[j].display_name # "Unknown"
           /\ \E a, b \in Indices(weeklyLogs) :
                  /\ a = FirstIndex(weeklyLogs, totalsByUser[i].user_id)
                  /\ a < b
                  /\ weeklyLogs[b].user_id = weeklyLogs[a].user_id
                  /\ weeklyLogs[a].profiles = NoProfiles
                  /\ weeklyLogs[b].profiles # NoProfiles

\* the rows of lg owned by u, in the order of lg
RECURSIVE OwnRows(_, _)
OwnRows(lg, u) ==
    IF lg = << >> THEN << >>
    ELSE IF Head(lg).user_id = u THEN <<Head(lg)>> \o OwnRows(Tail(lg), u)
    ELSE OwnRows(Tail(lg), u)
\* C23: for every owner on the dashboard, the profile page's streak and
\* weekly totals computed from that owner's rows alone equal the owner's
\* entry of the streak map and the owner's byUser summary, computed from
\* the list that also holds the other owners' rows, for the same today and
\* week start
C23_ProfileMatchesDashboard ==
    OnActivity =>
        /\ \A u \in DOMAIN streakByUser :
               ProfileStreak(OwnRows(logs, u), streakNow) = streakByUser[u]
        /\ \A i \in Indices(totalsByUser) :
               LET s == totalsByUser[i]
                   t == ProfileWeeklyTotals(OwnRows(logs, s.user_id), weekStartISO)
               IN  /\ t.study = s.study
                   /\ t.skill = s.skill
                   /\ t.exercise = s.exercise
                   /\ t.all = s.all
\* the dashboard lists rows of two owners, one of them with a streak of two
\* days, a row before the week start and minutes this week
C23_Witness ==
    /\ OnActivity
    /\ Len(totalsByUser) = 2
    /\ \E u \in DOMAIN streakByUser :
           /\ streakByUser[u] >= 2
           /\ \E i \in RowsOf(logs, u) : OccurredAt(logs[i]) < ParseISO(weekStartISO)
           /\ \E i \in Indices(totalsByUser) :
                  totalsByUser[i].user_id = u /\ totalsByUser[i].all > 0

\* C24: every owner with a byUser summary has an entry in the streak map;
\* every streak is at least 0 and at most the number of distinct days the
\* owner was active; an owner with a row dated today or yesterday has a
\* streak of at least 1
C24_StreakMapBounds ==
    OnActivity =>
        /\ \A i \in Indices(totalsByUser) :
               totalsByUser[i].user_id \in DOMAIN streakByUser
        /\ \A u \in DOMAIN streakByUser :
               /\ 0 <= streakByUser[u]
               /\ streakByUser[u] <= Cardinality(UserDays(u))
               /\ (Today \in UserDays(u) \/ (Today - 1) \in UserDays(u)) =>
                      streakByUser[u] >= 1
\* the dashboard lists an owner active today only, and an owner active
\* yesterday and on an earlier day behind a gap, whose streak is 1 of 2 days
C24_Witness ==
    /\ OnActivity
    /\ \E u, v \in DOMAIN streakByUser :
           /\ UserDays(u) = {Today}
           /\ streakByUser[u] = 1
           /\ \E i \in Indices(totalsByUser) : totalsByUser[i].user_id = u
           /\ Today \notin UserDays(v)
           /\ (Today - 1) \in UserDays(v)
           /\ Cardinality(UserDays(v)) = 2
           /\ streakByUser[v] = 1

\* C25: once no load of the profile page is in flight, the page shows the
\* state of the username requested last: every listed row is a row of that
\* user, and a row of the table; the answer of an older load has not
\* replaced what a newer load has set
C25_LastRequestWins ==
    (OnProfile /\ inflight = << >>) =>
        \A i \in Indices(logs) : logs[i].user_id = uname /\ logs[i] \in db

\* the text has no white space at its ends and is not empty
Trimmed(text) == text # << >> /\ Head(text) # " " /\ text[Len(text)] # " "
\* C26 for a submit step on a table with a limit: what is inserted is
\* trimmed, not empty and within the limit; a text that is blank or whose
\* trimmed length passes the limit inserts nothing, leaves the text and
\* sets one of the two messages; the text changes only when a row was
\* inserted, and then it is cleared
SubmitStepOk(before, after, max, emptyMsg, longMsg) ==
    /\ \A r \in after \ before : Trimmed(r.content) /\ Length(r.content) <= max
    /\ (BlankText(typed) \/ Length(Core(typed)) > max) =>
           /\ after = before
           /\ typed' = typed
           /\ msg' = (IF BlankText(typed) THEN emptyMsg ELSE longMsg)
    /\ typed' # typed => (after # before /\ typed' = NoText)
C26_SubmitStep ==
    /\ \A iOk, lOk \in BOOLEAN :
           CreatePost(iOk, lOk) =>
               SubmitStepOk(postsDb, postsDb', 280,
                            "Write something first.", "Max 280 characters.")
    /\ \A iOk, lOk \in BOOLEAN :
           AddComment(iOk, lOk) =>
               SubmitStepOk(commentsDb, commentsDb', 500,
                            "Write a comment first.", "Max 500 characters.")
\* C26: every comment inserted is trimmed, not empty and at most 500
\* characters long, every post inserted trimmed, not empty and at most 280;
\* a submission that is blank or too long sets the message, inserts nothing
\* and leaves the typed text; the text is cleared only after an insert that
\* succeeded
C26_ContentValidated == [][C26_SubmitStep]_vars
\* the discussion page has refused a comment of 501 characters, the text
\* still in the field; the tables hold a comment of 500 characters and a
\* post of 280 characters
C26_Witness ==
    /\ page = "post"
    /\ msg = "Max 500 characters."
    /\ typed = <<"comment-run", "c">>
    /\ \E r \in commentsDb : r.content = <<"comment-run">>
    /\ \E q \in postsDb : q.user_id = FormUser /\ q.content = <<"post-run">>

\* what a delete that failed leaves: the error message, every table, list
\* and derived value as it was
DeleteFailed ==
    /\ msg' = "error"
    /\ UNCHANGED <<tables, logs, posts, comments, activityMemos, profileMemos,
                   streakNow>>
\* what a delete of the row gone leaves: the row is out of its table and
\* the page was loaded again; when that load succeeded, the lists are those
\* of the tables as they are now; in any case the totals and streaks are
\* those of the list the load has set
DeleteReloaded(gone, before, after) ==
    /\ after = before \ {gone}
    /\ msg' = NoError =>
           /\ Range(logs') = (IF OnProfile THEN {l \in db' : l.user_id = uname}
                              ELSE IF OnActivity THEN db' ELSE {})
           /\ Range(posts') = (IF OnProfile THEN {q \in postsDb' : q.user_id = uname}
                               ELSE IF page = "feed" THEN postsDb' ELSE {})
           /\ Range(comments') = (IF page = "post" THEN commentsDb' ELSE {})
    /\ msg' # NoError => (logs' = << >> \/ ~(OnProfile \/ OnActivity))
    /\ OnProfile =>
           /\ weeklyTotals' = ProfileWeeklyTotals(logs', weekStartISO)
           /\ streak' = ProfileStreak(logs', now)
    /\ OnActivity =>
           /\ totalsByUser' = TotalsByUser(WeeklyLogs(logs', weekStartISO))
           /\ streakByUser' = StreakByUser(logs', now)
    /\ streakNow' = (IF OnProfile \/ OnActivity THEN now ELSE streakNow)
C27_DeleteStep ==
    \A lOk \in BOOLEAN :
        /\ \A i \in Indices(logs) :
               /\ ActivityDeleteLog(i, FALSE, lOk) => DeleteFailed
               /\ ProfileDeleteLog(i, FALSE, lOk) => DeleteFailed
               /\ ActivityDeleteLog(i, TRUE, lOk) => DeleteReloaded(logs[i], db, db')
               /\ ProfileDeleteLog(i, TRUE, lOk) => DeleteReloaded(logs[i], db, db')
        /\ \A i \in Indices(posts) :
               /\ FeedDeletePost(i, FALSE, lOk) => DeleteFailed
               /\ ProfileDeletePost(i, FALSE, lOk) => DeleteFailed
               /\ FeedDeletePost(i, TRUE, lOk) => DeleteReloaded(posts[i], postsDb, postsDb')
               /\ ProfileDeletePost(i, TRUE, lOk) => DeleteReloaded(posts[i], postsDb, postsDb')
        /\ \A i \in Indices(comments) :
               /\ DeleteComment(i, FALSE, lOk) => DeleteFailed
               /\ DeleteComment(i, TRUE, lOk) => DeleteReloaded(comments[i], commentsDb, commentsDb')
\* C27: a delete of a post, comment or activity row that fails sets the
\* error message, starts no reload and leaves the lists and the totals and
\* streak derived from them; a delete that succeeds is followed by a full
\* reload, and the totals and streak are computed from the list it fetched
C27_DeleteFrame == [][C27_DeleteStep]_vars
\* the viewer's profile after a comment, a post and a row were deleted and
\* a further delete has failed: the row it was about is still listed and
\* counted
C27_Witness ==
    /\ OnProfile
    /\ uname = FormUser
    /\ msg = "error"
    /\ OwnPost \notin postsDb
    /\ commentsDb = {}
    /\ Cardinality(db) = Cardinality(RowsAtDelete) - 1
    /\ Len(logs) = 1
    /\ logs[1] \in db
    /\ streak = 1

====
